---- MODULE Spec2Model ----
(***************************************************************************)
(* A model of lehakshiv: the text-to-speech conversion of                  *)
(* text2speak.py (LText2Speak.get_audio_file, merge_audio_files),          *)
(* textcleaner.py (cleantext) and the file handlers of lbackend.py         *)
(* (LBackend.index, upload, download, remove, list_downloads, convert,     *)
(* close).                                                                 *)
(*                                                                         *)
(* Files.  A path is <<dir, name>>; a name is the sequence of its          *)
(* characters.  The file system fs maps the existing paths to              *)
(* their contents; a content is a sequence of atoms.  In text files and    *)
(* documents the atoms 1..3 are physical lines (LineChars gives their      *)
(* characters) and the atom 0 is the magic header of a PDF document; in    *)
(* audio files the atoms are bytes.                                        *)
(*                                                                         *)
(* Three specifications share the variables: Spec runs one call of         *)
(* get_audio_file on a working directory holding one document, SpecMerge   *)
(* runs one call of merge_audio_files on a directory of segment files, and *)
(* SpecBackend runs the HTTP handlers on a working directory.              *)
(***************************************************************************)
EXTENDS Integers, Sequences, FiniteSets, TLC

VARIABLES
    fs,           \* the file system: existing path -> content
    pc,           \* position of get_audio_file: "idle", "loop", "done"
    file_name,    \* argument of the running get_audio_file call
    f_txt,        \* lines the iterator over out_file has not yielded yet
    text,         \* the accumulator `text` of the chunk loop
    i,            \* the chunk counter `i` of the chunk loop
    chunks,       \* the list `chunks` of segment paths
    ret,          \* outcome of get_audio_file: "none", "0", "-1" or an exception
    sealed,       \* history: the accumulated texts for which the emit branch was taken
    extractCalls, \* history: extractor invocations <<kind, in_file, out_file>>
    synthCalls,   \* history: TTS.text2mp3 invocations [text, path]
    mergeCalls,   \* history: invocations of merge_audio_files
    call,         \* history: the last method or handler invoked, with its arguments
    fs0,          \* history: the file system when that invocation started
    resp,         \* HTTP status of the last backend handler (0: none yet)
    work_dir      \* whether the backend's working directory (with uploads/
                  \* and converted/) exists

vars == <<fs, pc, file_name, f_txt, text, i, chunks, ret, sealed,
          extractCalls, synthCalls, mergeCalls, call, fs0, resp, work_dir>>

-----------------------------------------------------------------------------
(* Bounds and program constants *)

\* longest document, in lines
MaxLines == 3

\* longest list of segments handed to merge_audio_files
MaxChunks == 3

\* the word budget of the chunk loop
Budget == 4096

-----------------------------------------------------------------------------
(* Text: lines, characters, word count *)

PdfMagic == 0

LineIds == {1, 2, 3}

\* "x x ... x\n": Budget words separated by single blanks
LongLine ==
    [k \in 1..(2 * Budget) |->
        IF k = 2 * Budget THEN "\n" ELSE IF k % 2 = 1 THEN "x" ELSE " "]

\* the characters of each line atom
LineChars ==
    [l \in LineIds \cup {PdfMagic} |->
        CASE l = PdfMagic -> <<"%", "P", "D", "F", "\n">>
          [] l = 1 -> <<"a", "\n">>
          [] l = 2 -> <<"a", " ", "b", "\n">>
          [] l = 3 -> LongLine]

\* number of blanks in a line
SpaceCount ==
    [l \in LineIds \cup {PdfMagic} |->
        Cardinality({k \in DOMAIN LineChars[l] : LineChars[l][k] = " "})]

RECURSIVE Spaces(_)
Spaces(t) == IF t = <<>> THEN 0 ELSE SpaceCount[Head(t)] + Spaces(Tail(t))

\* len(text.split(" ")): one piece more than there are blanks ("" gives [""])
Words(t) == 1 + Spaces(t)

RECURSIVE SeqsUpTo(_, _)
SeqsUpTo(S, n) ==
    IF n = 0 THEN {<<>>}
    ELSE LET shorter == SeqsUpTo(S, n - 1)
         IN  shorter \cup {Append(s, x) : s \in shorter, x \in S}

Texts == SeqsUpTo(LineIds, MaxLines)

\* a document is a text file or a PDF holding a text
Docs == Texts \cup {<<PdfMagic>> \o t : t \in Texts}

-----------------------------------------------------------------------------
(* File names and the file system *)

Path(dir, name) == <<dir, name>>

Upl(name) == Path("uploads", name)

Conv(name) == Path("converted", name)

\* a file of the working directory itself
Root(name) == Path("work_dir", name)

Exists(f, p) == p \in DOMAIN f

Write(f, p, c) == [q \in DOMAIN f \cup {p} |-> IF q = p THEN c ELSE f[q]]

Unlink(f, p) == [q \in DOMAIN f \ {p} |-> f[q]]

NoFiles == [q \in {} |-> <<>>]

\* the file names handed to get_audio_file: a, a.doc, a.mp3, a.pdf.doc,
\* a.pdf, a.Pdf, a.txt, a.TXT, a.Txt, a.pdf.txt, a.pdf.pdf, .pdf
FileNames ==
    { <<"a">>,
      <<"a", ".", "d", "o", "c">>,
      <<"a", ".", "m", "p", "3">>,
      <<"a", ".", "p", "d", "f", ".", "d", "o", "c">>,
      <<"a", ".", "p", "d", "f">>,
      <<"a", ".", "P", "d", "f">>,
      <<"a", ".", "t", "x", "t">>,
      <<"a", ".", "T", "X", "T">>,
      <<"a", ".", "T", "x", "t">>,
      <<"a", ".", "p", "d", "f", ".", "t", "x", "t">>,
      <<"a", ".", "p", "d", "f", ".", "p", "d", "f">>,
      <<".", "p", "d", "f">> }

UpperCase ==
    <<"A", "B", "C", "D", "E", "F", "G", "H", "I", "J", "K", "L", "M", 
       "N", "O", "P", "Q", "R", "S", "T", "U", "V", "W", "X", "Y", "Z">>

LowerCase ==
    <<"a", "b", "c", "d", "e", "f", "g", "h", "i", "j", "k", "l", "m", 
       "n", "o", "p", "q", "r", "s", "t", "u", "v", "w", "x", "y", "z">>

\* str.lower() on one character
Lower(c) ==
    IF \E k \in DOMAIN UpperCase : UpperCase[k] = c
    THEN LowerCase[CHOOSE k \in DOMAIN UpperCase : UpperCase[k] = c]
    ELSE c

\* pathlib.Path(...).suffix: the name from its last dot on, and "" when
\* there is no dot or the last dot is the first or the last character
Suffix(name) ==
    LET dots == {k \in DOMAIN name : name[k] = "."}
    IN  IF dots = {} THEN <<>>
        ELSE LET d == CHOOSE k \in dots : \A j \in dots : j <= k
             IN  IF 1 < d /\ d < Len(name) THEN SubSeq(name, d, Len(name)) ELSE <<>>

\* suffix[1:].lower()
ExtOf(name) ==
    LET s == Suffix(name)
    IN  [k \in 1..(Len(s) - 1) |-> Lower(s[k + 1])]

DotPdf == <<".", "p", "d", "f">>

DotTxt == <<".", "t", "x", "t">>

RECURSIVE ReplacePdf(_)
\* file_name.replace(".pdf", ".txt"): every occurrence, case-sensitive
ReplacePdf(name) ==
    IF name = <<>> THEN <<>>
    ELSE IF Len(name) >= Len(DotPdf) /\ SubSeq(name, 1, Len(DotPdf)) = DotPdf
    THEN DotTxt \o ReplacePdf(SubSeq(name, Len(DotPdf) + 1, Len(name)))
    ELSE <<Head(name)>> \o ReplacePdf(Tail(name))

InFile(name) == Upl(name)

OutFile(name) == Upl(ReplacePdf(name))

-----------------------------------------------------------------------------
(* The collaborators of get_audio_file *)

Result(err, f) == [err |-> err, fs |-> f]

\* textcleaner.cleantext: open in_txt for reading, then open out_txt for
\* writing (which creates or truncates it), then copy line by line.  When
\* both paths name the same file, the file is empty before the first read.
cleantext(f, in_txt, out_txt) ==
    IF ~Exists(f, in_txt) THEN Result("FileNotFoundError", f)
    ELSE LET opened == Write(f, out_txt, <<>>)
         IN  Result("none", Write(opened, out_txt, opened[in_txt]))

\* pdf2txt.pdf2txt, the PDF-to-text collaborator: reads the PDF in_file and
\* writes its text to out_file; it fails on a missing file and on a file
\* that is no PDF
pdf2txt(f, in_file, out_file) ==
    IF ~Exists(f, in_file) THEN Result("ExtractionError", f)
    ELSE LET doc == f[in_file]
         IN  IF doc = <<>> \/ Head(doc) # PdfMagic
             THEN Result("UnsupportedFormatError", f)
             ELSE Result("none", Write(f, out_file, Tail(doc)))

\* the bytes the speech engine renders for a text: one byte per line
AudioOf(t) == [k \in 1..Len(t) |-> 0 - t[k]]

\* TTS.text2mp3: save_to_file and runAndWait; an exception of the engine is
\* not caught and leaves no file
text2mp3(f, text_, out_audio, ok) ==
    IF ok THEN Result("none", Write(f, out_audio, AudioOf(text_)))
    ELSE Result("SynthesisError", f)

DotMp3 == <<".", "m", "p", "3">>

\* format(value, spec) of an int: "" and "d" give the decimal digits, and a
\* presentation type that int does not know raises ValueError
FormatInt(value, fmtspec) ==
    IF fmtspec \in {"", "d"} THEN ToString(value) ELSE "ValueError"

\* f'{self.in_work_dir}/{6:i}.mp3': the formatted value is the literal 6 and
\* the format specification is the text "i"; the counter is not used
SegmentPath(idx) ==
    LET digits == FormatInt(6, "i")
    IN  IF digits = "ValueError" THEN [err |-> "ValueError", path |-> Upl(<<>>)]
        ELSE [err |-> "none", path |-> Upl(<<digits>> \o DotMp3)]

\* a dispatch without the final else: whatever is no pdf is cleaned as text
ExtractorFor_NoElse(ext) == IF ext = <<"p", "d", "f">> THEN "pdf2txt" ELSE "cleantext"

\* the dispatch on the extension: pdf, txt, or the error return
ExtractorFor(ext) ==
    CASE ext = <<"p", "d", "f">> -> "pdf2txt"
      [] ext = <<"t", "x", "t">> -> "cleantext"
      [] OTHER -> "none"

\* the test of the chunk loop with its comparison turned round
ShouldAppend_Inverted(t) == Words(t) >= Budget

\* the test of the chunk loop: the line is appended while the accumulated
\* text has fewer than Budget words
ShouldAppend(t) == Words(t) < Budget

-----------------------------------------------------------------------------
(* LText2Speak.get_audio_file *)

\* the call up to the opening of out_file: extension, extraction
get_audio_file(name) ==
    /\ pc = "idle"
    /\ file_name' = name
    /\ call' = [op |-> "get_audio_file", name |-> name]
    /\ fs0' = fs
    /\ text' = <<>> /\ i' = 0 /\ chunks' = <<>>
    /\ UNCHANGED <<sealed, synthCalls, mergeCalls, resp, work_dir>>
    /\ LET which == ExtractorFor(ExtOf(name))
           in_file == InFile(name)
           out_file == OutFile(name)
       IN  IF which = "none"
           THEN /\ ret' = "-1" /\ pc' = "done"
                /\ f_txt' = <<>>
                /\ UNCHANGED <<fs, extractCalls>>
           ELSE LET r == IF which = "pdf2txt"
                         THEN pdf2txt(fs, in_file, out_file)
                         ELSE cleantext(fs, in_file, out_file)
                IN  /\ extractCalls' = Append(extractCalls, <<which, in_file, out_file>>)
                    /\ fs' = r.fs
                    /\ IF r.err = "none"
                       THEN /\ pc' = "loop" /\ ret' = "none"
                            /\ f_txt' = r.fs[out_file]
                       ELSE /\ pc' = "done" /\ ret' = r.err
                            /\ f_txt' = <<>>

\* one iteration of `for line in f_txt`: the iterator yields the next line,
\* which is appended to text or, once text has reached the budget, starts the
\* next chunk after text has gone to the synthesizer
chunk_loop_line ==
    /\ pc = "loop" /\ f_txt # <<>>
    /\ f_txt' = Tail(f_txt)
    /\ LET line == Head(f_txt)
       IN  IF ShouldAppend(text)
           THEN /\ text' = Append(text, line)
                /\ UNCHANGED <<fs, pc, i, chunks, ret, sealed, synthCalls>>
           ELSE LET seg == SegmentPath(i)
                IN  /\ sealed' = Append(sealed, text)
                    /\ IF seg.err # "none"
                       THEN /\ pc' = "done" /\ ret' = seg.err
                            /\ UNCHANGED <<fs, text, i, chunks, synthCalls>>
                       ELSE \E ok \in BOOLEAN :
                            LET r == text2mp3(fs, text, seg.path, ok)
                            IN  /\ chunks' = Append(chunks, seg.path)
                                /\ synthCalls' = Append(synthCalls,
                                       [text |-> text, path |-> seg.path])
                                /\ fs' = r.fs
                                /\ IF r.err = "none"
                                   THEN /\ text' = <<line>> /\ i' = i + 1
                                        /\ UNCHANGED <<pc, ret>>
                                   ELSE /\ pc' = "done" /\ ret' = r.err
                                        /\ UNCHANGED <<text, i>>
    /\ UNCHANGED <<file_name, extractCalls, mergeCalls, call, fs0, resp, work_dir>>

\* the iterator is exhausted: return 0
chunk_loop_end ==
    /\ pc = "loop" /\ f_txt = <<>>
    /\ pc' = "done" /\ ret' = "0"
    /\ UNCHANGED <<fs, file_name, f_txt, text, i, chunks, sealed,
                   extractCalls, synthCalls, mergeCalls, call, fs0, resp, work_dir>>

NoCall == [op |-> "none"]

\* the working directory holds one document, or none
Init ==
    /\ fs \in {NoFiles} \cup {Write(NoFiles, Upl(n), d) : n \in FileNames, d \in Docs}
    /\ pc = "idle" /\ file_name = <<>> /\ f_txt = <<>> /\ text = <<>>
    /\ i = 0 /\ chunks = <<>> /\ ret = "none" /\ sealed = <<>>
    /\ extractCalls = <<>> /\ synthCalls = <<>> /\ mergeCalls = <<>>
    /\ call = NoCall /\ fs0 = NoFiles /\ resp = 0 /\ work_dir = TRUE

Next ==
    \/ \E name \in FileNames : get_audio_file(name)
    \/ chunk_loop_line
    \/ chunk_loop_end

Spec == Init /\ [][Next]_vars

-----------------------------------------------------------------------------
(* LText2Speak.merge_audio_files *)

Cwd(name) == Path(".", name)

RECURSIVE SplitBlank(_, _)
\* the pieces of a name between its blanks; cur is the piece being read
SplitBlank(name, cur) ==
    IF name = <<>> THEN <<cur>>
    ELSE IF Head(name) = " " THEN <<cur>> \o SplitBlank(Tail(name), <<>>)
    ELSE SplitBlank(Tail(name), Append(cur, Head(name)))

\* the words the shell makes of one path of the command line: the text up to
\* the first blank stays under the path's directory, every later piece is a
\* word of its own, resolved against the current directory
ArgPaths(p) ==
    LET pieces == SplitBlank(p[2], <<>>)
        later == SelectSeq(Tail(pieces), LAMBDA piece : piece # <<>>)
    IN  <<Path(p[1], pieces[1])>> \o [k \in DOMAIN later |-> Cwd(later[k])]

RECURSIVE CatArgs(_)
\* " ".join(chunks), as the shell splits it into the arguments of cat
CatArgs(cs) == IF cs = <<>> THEN <<>> ELSE ArgPaths(Head(cs)) \o CatArgs(Tail(cs))

RECURSIVE CatOutput(_, _, _)
\* what cat writes for its arguments, in their order: a missing file is
\* reported and skipped, and so is the output file itself (the shell has
\* truncated it, and cat refuses to copy its own output)
CatOutput(f, args, out) ==
    IF args = <<>> THEN <<>>
    ELSE (IF ~Exists(f, Head(args)) \/ Head(args) = out THEN <<>> ELSE f[Head(args)])
         \o CatOutput(f, Tail(args), out)

\* os.system("cat " + " ".join(chunks) + " > " + out_name): the shell splits
\* the whole command line into words, out_name included.  The first word of
\* out_name is the target of the redirection and every later word one more
\* argument of cat.  The shell opens the target for writing first; when the
\* target is a directory (out_name starts with a blank) the shell reports that
\* and runs nothing.  cat without arguments copies its standard input.
merge_audio_files(chunks_, out_name, stdin) ==
    /\ pc = "idle" /\ call = NoCall
    /\ LET words == ArgPaths(out_name)
           target == Head(words)
           args == CatArgs(chunks_) \o Tail(words)
           opened == Write(fs, target, <<>>)
           written == IF args = <<>> THEN stdin ELSE CatOutput(opened, args, target)
       IN  fs' = IF target[2] = <<>> THEN fs ELSE Write(opened, target, written)
    /\ mergeCalls' = Append(mergeCalls, [chunks |-> chunks_, out |-> out_name])
    /\ call' = [op |-> "merge_audio_files", chunks |-> chunks_, out |-> out_name]
    /\ fs0' = fs
    /\ UNCHANGED <<pc, file_name, f_txt, text, i, chunks, ret, sealed,
                   extractCalls, synthCalls, resp, work_dir>>

Seg0 == Upl(<<"0", ".", "m", "p", "3">>)

Seg1 == Upl(<<"1", ".", "m", "p", "3">>)

\* a segment whose name holds a blank: "0.mp3 1.mp3"
SegBlank == Upl(<<"0", ".", "m", "p", "3", " ", "1", ".", "m", "p", "3">>)

Merged == Conv(<<"o", "u", "t", ".", "m", "p", "3">>)

\* an output name that holds a blank: "my out.mp3"
MergedBlank == Conv(<<"m", "y", " ", "o", "u", "t", ".", "m", "p", "3">>)

\* an output name that starts with a blank: " out.mp3"
MergedLeadingBlank == Conv(<<" ", "o", "u", "t", ".", "m", "p", "3">>)

\* the file out.mp3 of the current directory, which the second word of
\* "my out.mp3" names
CwdOut == Cwd(<<"o", "u", "t", ".", "m", "p", "3">>)

MergePaths == {Seg0, Seg1, SegBlank, Merged}

OutNames == {Merged, Seg0, MergedBlank, MergedLeadingBlank}

ByteSeqs == {<<1>>, <<2>>}

FileSystems(paths, contents) == UNION {[S -> contents] : S \in SUBSET paths}

InitMerge ==
    /\ fs \in FileSystems(MergePaths \cup {CwdOut}, ByteSeqs)
    /\ pc = "idle" /\ file_name = <<>> /\ f_txt = <<>> /\ text = <<>>
    /\ i = 0 /\ chunks = <<>> /\ ret = "none" /\ sealed = <<>>
    /\ extractCalls = <<>> /\ synthCalls = <<>> /\ mergeCalls = <<>>
    /\ call = NoCall /\ fs0 = NoFiles /\ resp = 0 /\ work_dir = TRUE

NextMerge ==
    \E cs \in SeqsUpTo(MergePaths, MaxChunks), out \in OutNames,
       stdin \in ByteSeqs \cup {<<>>} :
        /\ cs # <<>> => stdin = <<>>
        /\ merge_audio_files(cs, out, stdin)

SpecMerge == InitMerge /\ [][NextMerge]_vars

-----------------------------------------------------------------------------
(* LBackend: the handlers *)

Response(status, f) == [status |-> status, fs |-> f]

\* flask.jsonify: the JSON provider serialises strings, numbers, lists and
\* dicts of them; for any other object, an exception instance among them, it
\* raises TypeError
jsonify(message) == IF message = "str" THEN "json" ELSE "TypeError"

\* make_response(jsonify({"message": message, ...}), status): the body is
\* built first, and an exception that leaves the handler is answered by
\* Flask with 500
make_response(message, status) ==
    IF jsonify(message) = "TypeError" THEN 500 ELSE status

\* the try block of remove: unlink uploads/filename, then converted/filename;
\* the first FileNotFoundError ends the block in the except clause, whose
\* message is the exception instance itself
unlink_both(f, filename) ==
    IF ~Exists(f, Upl(filename))
    THEN Response(make_response("FileNotFoundError", 404), f)
    ELSE LET f1 == Unlink(f, Upl(filename))
         IN  IF ~Exists(f1, Conv(filename))
             THEN Response(make_response("FileNotFoundError", 404), f1)
             ELSE Response(make_response("str", 200), Unlink(f1, Conv(filename)))

remove(filename) ==
    /\ LET r == unlink_both(fs, filename)
       IN  fs' = r.fs /\ resp' = r.status
    /\ call' = [op |-> "remove", name |-> filename]
    /\ fs0' = fs
    /\ UNCHANGED <<pc, file_name, f_txt, text, i, chunks, ret, sealed,
                   extractCalls, synthCalls, mergeCalls, work_dir>>

\* fup.save(f'{work_dir}/uploads') opens the path of the uploads directory
\* itself for writing.  While the directory exists that is IsADirectoryError,
\* which the handler does not catch; once the working directory is gone it
\* is FileNotFoundError, and the except clause hands the exception instance
\* to jsonify.  The "upload ok" response is never built.
upload(filename, content) ==
    /\ resp' = IF work_dir THEN 500 ELSE make_response("FileNotFoundError", 404)
    /\ call' = [op |-> "upload", name |-> filename, content |-> content]
    /\ fs0' = fs
    /\ UNCHANGED <<fs, pc, file_name, f_txt, text, i, chunks, ret, sealed,
                   extractCalls, synthCalls, mergeCalls, work_dir>>

\* convert answers with the file name and starts nothing
convert(filename) ==
    /\ resp' = make_response("str", 200)
    /\ call' = [op |-> "convert", name |-> filename]
    /\ fs0' = fs
    /\ UNCHANGED <<fs, pc, file_name, f_txt, text, i, chunks, ret, sealed,
                   extractCalls, synthCalls, mergeCalls, work_dir>>

\* index answers with the page
index ==
    /\ resp' = 200
    /\ call' = [op |-> "index"]
    /\ fs0' = fs
    /\ UNCHANGED <<fs, pc, file_name, f_txt, text, i, chunks, ret, sealed,
                   extractCalls, synthCalls, mergeCalls, work_dir>>

\* download looks for the file in the working directory itself, not in
\* converted/: send_from_directory raises NotFound for what is no file there,
\* an HTTP exception that the except clause does not catch and Flask answers
\* with 404; for a file it builds the response, which the handler drops for
\* its "download ok." message
download(filename) ==
    /\ resp' = IF Exists(fs, Root(filename)) THEN make_response("str", 200) ELSE 404
    /\ call' = [op |-> "download", name |-> filename]
    /\ fs0' = fs
    /\ UNCHANGED <<fs, pc, file_name, f_txt, text, i, chunks, ret, sealed,
                   extractCalls, synthCalls, mergeCalls, work_dir>>

\* list_downloads answers 404 when converted/ does not exist and the list
\* of its files otherwise
list_downloads ==
    /\ resp' = IF work_dir THEN make_response("str", 200)
               ELSE make_response("str", 404)
    /\ call' = [op |-> "list_downloads"]
    /\ fs0' = fs
    /\ UNCHANGED <<fs, pc, file_name, f_txt, text, i, chunks, ret, sealed,
                   extractCalls, synthCalls, mergeCalls, work_dir>>

\* close removes the working directory, if it exists, with all it holds
close ==
    /\ fs' = IF work_dir THEN NoFiles ELSE fs
    /\ work_dir' = FALSE
    /\ call' = [op |-> "close"]
    /\ fs0' = fs
    /\ UNCHANGED <<pc, file_name, f_txt, text, i, chunks, ret, sealed,
                   extractCalls, synthCalls, mergeCalls, resp>>

\* a.txt, b.pdf
StoredNames == {<<"a", ".", "t", "x", "t">>, <<"b", ".", "p", "d", "f">>}

StoredPaths ==
    {Upl(n) : n \in StoredNames} \cup {Conv(n) : n \in StoredNames}
        \cup {Root(<<"a", ".", "t", "x", "t">>)}

InitBackend ==
    /\ fs \in FileSystems(StoredPaths, ByteSeqs)
    /\ pc = "idle" /\ file_name = <<>> /\ f_txt = <<>> /\ text = <<>>
    /\ i = 0 /\ chunks = <<>> /\ ret = "none" /\ sealed = <<>>
    /\ extractCalls = <<>> /\ synthCalls = <<>> /\ mergeCalls = <<>>
    /\ call = NoCall /\ fs0 = NoFiles /\ resp = 0 /\ work_dir = TRUE

NextBackend ==
    \/ index
    \/ \E n \in StoredNames, c \in ByteSeqs : upload(n, c)
    \/ \E n \in StoredNames : download(n)
    \/ \E n \in StoredNames : remove(n)
    \/ list_downloads
    \/ \E n \in StoredNames : convert(n)
    \/ close

SpecBackend == InitBackend /\ [][NextBackend]_vars

-----------------------------------------------------------------------------
(* Properties *)

Returned == call.op = "get_audio_file" /\ pc = "done"

Supported(name) == ExtOf(name) \in {<<"p", "d", "f">>, <<"t", "x", "t">>}

RECURSIVE EmittedText(_)
\* the texts handed to the synthesizer, concatenated in the order of the calls
EmittedText(cs) == IF cs = <<>> THEN <<>> ELSE Head(cs).text \o EmittedText(Tail(cs))

\* C1: when a conversion has returned 0, the chunk contents handed to the
\* synthesizer, concatenated in order, are the whole text read from out_file,
\* the last chunk included.
C1_ChunksPartitionText ==
    (Returned /\ ret = "0") => EmittedText(synthCalls) = fs[OutFile(file_name)]

\* C2: a conversion of a supported document in which no stage failed has
\* invoked the merger once, on the list of the job's segments, and a merged
\* audio file is in the output directory.  (Stated for the documents that
\* hold some text: whether an empty text is merged at all is left open.)
C2_MergedWhenDone ==
    (Returned /\ ret = "0" /\ fs[OutFile(file_name)] # <<>>) =>
        /\ Len(mergeCalls) = 1
        /\ mergeCalls[1].chunks = chunks
        /\ \E p \in DOMAIN fs : p[1] = "converted"

\* C3: every chunk the loop has sealed has a segment path, the path names the
\* true index of the chunk, and the paths of two chunks differ.
C3_SegmentPathByIndex ==
    /\ \A k \in DOMAIN sealed :
          k \in DOMAIN chunks /\ chunks[k] = Upl(<<ToString(k - 1)>> \o DotMp3)
    /\ \A j, k \in DOMAIN chunks : j # k => chunks[j] # chunks[k]

\* C5: a call of get_audio_file for an extension that is neither pdf nor txt
\* has returned -1 at once, with no extractor, synthesizer or merger invoked
\* and the file system as it was.
C5_UnsupportedExtensionFailsFast ==
    (call.op = "get_audio_file" /\ ~Supported(call.name)) =>
        /\ pc = "done" /\ ret = "-1"
        /\ extractCalls = <<>> /\ synthCalls = <<>> /\ mergeCalls = <<>>
        /\ fs = fs0

C5_Witness ==
    /\ call.op = "get_audio_file" /\ ExtOf(call.name) = <<"d", "o", "c">>
    /\ Exists(fs0, InFile(call.name)) /\ fs0[InFile(call.name)] # <<>>
    /\ ret = "-1"

\* C6, as claimed: every chunk the loop seals for the synthesizer has fewer
\* words than the budget.
C6_ChunkBelowBudget == \A k \in DOMAIN sealed : Words(sealed[k]) < Budget

\* C6, amended: every chunk the loop seals for the synthesizer has at least
\* Budget words, and had fewer than Budget words before its last line.
C6_SealedChunkReachedBudget ==
    \A k \in DOMAIN sealed :
        /\ Words(sealed[k]) >= Budget
        /\ sealed[k] # <<>>
        /\ Words(SubSeq(sealed[k], 1, Len(sealed[k]) - 1)) < Budget

C6_Witness ==
    /\ sealed # <<>> /\ Len(sealed[1]) > 1
    /\ Words(sealed[1]) > Budget

\* C7: a conversion of a document with a supported extension leaves the
\* document in the input directory with the content it had before the call.
C7_DocumentUnchanged ==
    (call.op = "get_audio_file" /\ Supported(call.name)
        /\ Exists(fs0, InFile(call.name))) =>
        /\ Exists(fs, InFile(call.name))
        /\ fs[InFile(call.name)] = fs0[InFile(call.name)]

RECURSIVE ByteConcat(_, _)
\* the contents of the listed files, one after the other
ByteConcat(f, cs) == IF cs = <<>> THEN <<>> ELSE f[Head(cs)] \o ByteConcat(f, Tail(cs))

AllExist(f, cs) == \A k \in DOMAIN cs : Exists(f, cs[k])

\* C8, as claimed: for every list of existing segment files, out_name holds
\* the contents of the segments in the listed order.
C8_MergeIsConcatenation ==
    (call.op = "merge_audio_files" /\ AllExist(fs0, call.chunks)) =>
        /\ Exists(fs, call.out)
        /\ fs[call.out] = ByteConcat(fs0, call.chunks)

\* C9: after remove(f), a file f that was in uploads/ or in converted/ is in
\* neither, and the answer is 404 when f was in neither.
C9_RemoveDeletesBoth ==
    call.op = "remove" =>
        LET was == Exists(fs0, Upl(call.name)) \/ Exists(fs0, Conv(call.name))
        IN  /\ was => ~Exists(fs, Upl(call.name)) /\ ~Exists(fs, Conv(call.name))
            /\ ~was => resp = 404

\* C10: remove(f) deletes converted/f only in a call that found and deleted
\* uploads/f; when uploads/f is absent the answer is 404 and the file system
\* is as it was.
C10_RemoveNeedsUpload ==
    call.op = "remove" =>
        /\ ~Exists(fs0, Upl(call.name)) => resp = 404 /\ fs = fs0
        /\ (Exists(fs0, Conv(call.name)) /\ ~Exists(fs, Conv(call.name))) =>
              Exists(fs0, Upl(call.name)) /\ ~Exists(fs, Upl(call.name))

====
